---- MODULE Spec2Model ----
(***************************************************************************)
(* Model of the multi-agent orchestration core:                            *)
(*   OrchestratorAgent.process_request  = _analyze_task ; _run_subagents ; *)
(*                                        _synthesize_responses            *)
(*   WeatherAgent.process_task, AttractionsAgent.process_task              *)
(*                                                                         *)
(* Text is a sequence of string segments; an f-string is the concatenation *)
(* of its segments.  A JSON object is a function from its keys.            *)
(***************************************************************************)
EXTENDS Naturals, Sequences, FiniteSets, TLC

VARIABLES
    weather_agent,       \* OrchestratorAgent.weather_agent: "None" | "NoHandle" | "Ready"
    attractions_agent,   \* OrchestratorAgent.attractions_agent, likewise
    pc,                  \* position of process_request
    user_message,        \* argument of process_request
    classification,      \* what the classification call gave (kept for the record)
    agent_plan,          \* value returned by _analyze_task
    invoked,             \* key -> task text handed to that specialist's process_task
    subagent_responses,  \* the dict built by _run_subagents
    synthesis_prompt,    \* prompt posted by _synthesize_responses
    result,              \* value returned by process_request
    error,               \* exception that left process_request
    log,                 \* order of the phase events of the current request
    kind,                \* a specialist instance: WeatherAgent or AttractionsAgent
    agent,               \* that specialist's self.agent: "None" or "handle"
    threads,             \* the engine's threads, thread id = index
    calls,               \* the process_task calls on that specialist
    api_key,             \* api_key of each tool server module: "None" | "" | a key
    tool_call,           \* the tool call last made, with the provider's response to it
    tool_result          \* what that call returned

\* state of the orchestrator and of its current request
orchestratorVars == << weather_agent, attractions_agent, pc, user_message, classification,
                       agent_plan, invoked, subagent_responses, synthesis_prompt, result,
                       error, log >>

\* state of one specialist instance and of the calls made on it
specialistVars == << kind, agent, threads, calls >>

\* state of the two tool servers and of the tool call last made
toolVars == << api_key, tool_call, tool_result >>

vars == << orchestratorVars, specialistVars, toolVars >>

-----------------------------------------------------------------------------
(* Bounds of the model *)

\* longest agents_needed array the classification reply carries
MaxNeeded == 2
\* longest transcript messages.list returns
MaxMessages == 2
\* number of process_task calls made on one specialist instance
MaxCalls == 2

-----------------------------------------------------------------------------
(* Names *)

WeatherName == "weather-agent"
AttractionsName == "attractions-agent"
\* the agent names the orchestrator knows
KnownAgents == {WeatherName, AttractionsName}
\* a name the classification model may invent
UnknownName == "hotel-agent"
ReplyNames == KnownAgents \cup {UnknownName}

\* keys of subagent_responses
WeatherKey == "weather"
AttractionsKey == "attractions"
Keys == {WeatherKey, AttractionsKey}

NameOf(k) == IF k = WeatherKey THEN WeatherName ELSE AttractionsName
TaskKey(k) == IF k = WeatherKey THEN "weather_task" ELSE "attractions_task"

\* user inputs
UserMessages == { <<"weather in Paris?">>, <<"things to do in Austin">> }

EmptyMap == [k \in {} |-> <<>>]

\* sequences over S of length at most n
RECURSIVE SeqsUpTo(_, _)
SeqsUpTo(S, n) ==
    IF n = 0 THEN { <<>> }
    ELSE LET shorter == SeqsUpTo(S, n - 1)
         IN shorter \cup { Append(s, x) : s \in { t \in shorter : Len(t) = n - 1 }, x \in S }

Range(s) == { s[i] : i \in 1..Len(s) }

\* dict.get(key, default)
Get(d, key, default) == IF key \in DOMAIN d THEN d[key] ELSE default

\* Optional value: <<>> when absent, <<v>> when present
Opt(S) == { <<>> } \cup { <<x>> : x \in S }

\* a dict holding key k when the optional value o is present
Field(k, o) == IF Len(o) = 0 THEN EmptyMap ELSE (k :> o[1])

-----------------------------------------------------------------------------
(* The execution engine (client.agents): one exchange is threads.create,   *)
(* messages.create, runs.create_and_process, messages.list.  Any of the    *)
(* four calls may raise; otherwise messages.list gives a transcript.       *)

Stages == { "threads.create", "messages.create", "runs.create_and_process", "messages.list" }

UserTurn == [role |-> "user", content |-> << <<"prompt">> >>]

\* index of the first assistant-authored message, 0 when there is none:
\* "for msg in messages: if msg.role == 'assistant'"
FirstAssistant(messages) ==
    LET hits == { i \in 1..Len(messages) : messages[i].role = "assistant" }
    IN IF hits = {} THEN 0 ELSE CHOOSE i \in hits : \A j \in hits : i <= j

Failed(stage) == [fail |-> stage, messages |-> <<>>]
Listed(messages) == [fail |-> "none", messages |-> messages]

\* the outcome of a call: a returned value or a raised exception
Return(v) == [kind |-> "return", value |-> v, exc |-> "none"]
Raise(e) == [kind |-> "raise", value |-> <<>>, exc |-> e]

-----------------------------------------------------------------------------
(* Task Planner: OrchestratorAgent._analyze_task *)

\* JSON objects the classification model may reply with
AgentLists == { s \in SeqsUpTo(ReplyNames, MaxNeeded) : Cardinality(Range(s)) = Len(s) }

ReplyObjects ==
    { Field("agents_needed", an) @@ Field("weather_task", wt)
        @@ Field("attractions_task", at) @@ Field("location", loc)
        @@ ("reasoning" :> <<"because">>) :
        an \in Opt(AgentLists),
        wt \in Opt({ <<"check the weather">> }),
        at \in Opt({ <<"find attractions">> }),
        loc \in Opt({ <<>>, <<"Paris">> }) }

\* text of an assistant reply: the serialisation of a JSON object, of a JSON
\* value that is not an object (a number, a string, an array), or no JSON at all
ObjectText(o) == [syntax |-> "object", obj |-> o]
ValueText == [syntax |-> "value", obj |-> EmptyMap]
GarbageText == [syntax |-> "garbage", obj |-> EmptyMap]
ReplyTexts == { ObjectText(o) : o \in ReplyObjects } \cup { ValueText, GarbageText }

\* json.loads: raises JSONDecodeError on text that is no JSON, else the value
json_loads(text) ==
    IF text.syntax = "garbage" THEN [ok |-> FALSE, isdict |-> FALSE, value |-> EmptyMap]
    ELSE [ok |-> TRUE, isdict |-> text.syntax = "object", value |-> text.obj]

PlannerUserTurn == [role |-> "user", content |-> << GarbageText >>]
Assistant(text) == [role |-> "assistant", content |-> << text >>]
\* an assistant message whose content list is empty
AssistantNoContent == [role |-> "assistant", content |-> << >>]

PlannerTranscripts ==
    SeqsUpTo({ PlannerUserTurn }, MaxMessages)
    \cup { pre \o << m >> \o post :
             pre \in SeqsUpTo({ PlannerUserTurn }, MaxMessages - 1),
             m \in { Assistant(t) : t \in ReplyTexts } \cup { AssistantNoContent },
             post \in SeqsUpTo({ PlannerUserTurn, Assistant(GarbageText) }, MaxMessages - 1) }

PlannerOutcomes ==
    { Failed(st) : st \in Stages }
    \cup { Listed(tr) : tr \in { t \in PlannerTranscripts : Len(t) <= MaxMessages } }

LocationNotSpecified == << "location not specified" >>

FallbackPlan(message, reasoning) ==
    [ agents_needed |-> << WeatherName, AttractionsName >>,
      weather_task |-> message,
      attractions_task |-> message,
      location |-> LocationNotSpecified,
      reasoning |-> << reasoning >> ]

\* what _analyze_task gives back: [kind, isdict, plan, exc]
Planned(isdict, plan) == [kind |-> "return", isdict |-> isdict, plan |-> plan, exc |-> "none"]
PlanRaise(e) == [kind |-> "raise", isdict |-> FALSE, plan |-> EmptyMap, exc |-> e]

\* _analyze_task without its except clause: the decode error leaves the call
AnalyzeTaskNoFallback(message, outcome) ==
    IF outcome.fail # "none" THEN PlanRaise("EngineError")
    ELSE LET i == FirstAssistant(outcome.messages) IN
         IF i = 0 THEN Planned(TRUE, FallbackPlan(message, "Default fallback"))
         ELSE LET msg == outcome.messages[i] IN
              IF Len(msg.content) = 0 THEN PlanRaise("IndexError")
              ELSE LET parsed == json_loads(msg.content[1]) IN
                   IF parsed.ok THEN Planned(parsed.isdict, parsed.value)
                   ELSE PlanRaise("JSONDecodeError")

\* _analyze_task with the engine calls wrapped in a catch-all that defaults
AnalyzeTaskSwallow(message, outcome) ==
    IF outcome.fail # "none" THEN Planned(TRUE, FallbackPlan(message, "Default fallback"))
    ELSE LET i == FirstAssistant(outcome.messages) IN
         IF i = 0 THEN Planned(TRUE, FallbackPlan(message, "Default fallback"))
         ELSE LET msg == outcome.messages[i] IN
              IF Len(msg.content) = 0 THEN PlanRaise("IndexError")
              ELSE LET parsed == json_loads(msg.content[1]) IN
                   IF parsed.ok THEN Planned(parsed.isdict, parsed.value)
                   ELSE Planned(TRUE, FallbackPlan(message, "Fallback to using both agents"))

AnalyzeTask(message, outcome) ==
    IF outcome.fail # "none" THEN PlanRaise("EngineError")
    ELSE LET i == FirstAssistant(outcome.messages) IN
         IF i = 0 THEN Planned(TRUE, FallbackPlan(message, "Default fallback"))
         ELSE LET msg == outcome.messages[i] IN
              IF Len(msg.content) = 0 THEN PlanRaise("IndexError")
              ELSE LET parsed == json_loads(msg.content[1]) IN
                   IF parsed.ok THEN Planned(parsed.isdict, parsed.value)
                   ELSE Planned(TRUE, FallbackPlan(message, "Fallback to using both agents"))

\* how the classification call ended, as the caller of the engine sees it
ReplyKind(outcome) ==
    IF outcome.fail # "none" THEN "engine_error"
    ELSE LET i == FirstAssistant(outcome.messages) IN
         IF i = 0 THEN "no_reply"
         ELSE IF Len(outcome.messages[i].content) = 0 THEN "no_content"
         ELSE outcome.messages[i].content[1].syntax

-----------------------------------------------------------------------------
(* Specialist Agent: WeatherAgent.process_task, AttractionsAgent.process_task *)

\* what a sub-agent field of the orchestrator can hold: None, a specialist
\* whose own agent handle is None, or a specialist with its handle created
Uninitialized == "NoHandle"
SubagentStates == { "None", Uninitialized, "Ready" }

SpecialistTexts == { <<"reply A">>, <<"reply B">> }

SpecialistMessages ==
    { UserTurn, [role |-> "assistant", content |-> << >>] }
    \cup { [role |-> "assistant", content |-> << t >>] : t \in SpecialistTexts }

SpecialistOutcomes ==
    { Failed(st) : st \in Stages }
    \cup { Listed(tr) : tr \in SeqsUpTo(SpecialistMessages, MaxMessages) }

\* "Weather agent error: " / "Attractions agent error: "
ErrorPrefix(k) == IF k = WeatherKey THEN "Weather agent error: " ELSE "Attractions agent error: "
ErrorText(k, e) == << ErrorPrefix(k), e >>

NoResponse(k) ==
    IF k = WeatherKey THEN << "No response received from weather agent" >>
    ELSE << "No response received from attractions agent" >>

\* process_task of specialist k in state st, the engine answering with outcome
ProcessTask(k, st, task, outcome) ==
    IF st = Uninitialized THEN Raise("ValueError")
    ELSE IF outcome.fail # "none" THEN Return(ErrorText(k, "EngineError"))
    ELSE LET i == FirstAssistant(outcome.messages) IN
         IF i = 0 THEN Return(NoResponse(k))
         ELSE IF Len(outcome.messages[i].content) = 0 THEN Return(ErrorText(k, "IndexError"))
         ELSE Return(outcome.messages[i].content[1])

-----------------------------------------------------------------------------
(* Dispatcher: OrchestratorAgent._run_subagents *)

Subagent(k) == IF k = WeatherKey THEN weather_agent ELSE attractions_agent

\* the test without its agents_needed conjunct
SelectedIgnoringPlan(plan, k, sub) ==
    /\ TaskKey(k) \in DOMAIN plan
    /\ sub # "None"

\* the test without its "and self.<k>_agent" conjunct
SelectedIgnoringRegistry(plan, k, sub) ==
    /\ NameOf(k) \in Range(Get(plan, "agents_needed", << >>))
    /\ TaskKey(k) \in DOMAIN plan

\* the condition under which _run_subagents runs specialist k
Selected(plan, k, sub) ==
    /\ NameOf(k) \in Range(Get(plan, "agents_needed", << >>))
    /\ TaskKey(k) \in DOMAIN plan
    /\ sub # "None"

Instruction(k) ==
    IF k = WeatherKey
    THEN << "\n\nPlease use the weather tools with the location '",
            "' to provide accurate weather information." >>
    ELSE << "\n\nPlease use the attractions tools with the location '",
            "' to provide accurate attraction information." >>

\* a task string that leaves the plan's location out
TaskTextNoLocation(plan, k) ==
    << "Location: ", "\n\nTask: " >> \o plan[TaskKey(k)]
       \o << Instruction(k)[1], Instruction(k)[2] >>

\* the task string handed to specialist k
TaskText(plan, k) ==
    LET location == Get(plan, "location", << >>) IN
    << "Location: " >> \o location \o << "\n\nTask: " >> \o plan[TaskKey(k)]
       \o << Instruction(k)[1] >> \o location \o << Instruction(k)[2] >>

-----------------------------------------------------------------------------
(* Synthesizer: OrchestratorAgent._synthesize_responses *)

NoFinalResponse == << "No response received from final orchestrator" >>

Upper(k) == IF k = WeatherKey THEN "WEATHER" ELSE "ATTRACTIONS"

Section(responses, k) ==
    IF k \in DOMAIN responses
    THEN << "=== ", Upper(k), " AGENT RESPONSE ===\n" >> \o responses[k] \o << "\n\n" >>
    ELSE << >>

\* the dict is filled weather first, so items() yields weather first
SynthesisPrompt(message, responses) ==
    << "Original user question: " >> \o message
       \o << "\n\n", "Responses from specialist agents:\n\n" >>
       \o Section(responses, WeatherKey) \o Section(responses, AttractionsKey)
       \o << "Please synthesize these responses into a comprehensive final answer." >>

FinalTexts == { <<"final answer">> }

SynthesisOutcomes ==
    { Failed(st) : st \in Stages }
    \cup { Listed(tr) :
             tr \in SeqsUpTo({ UserTurn, [role |-> "assistant", content |-> << >>] }
                             \cup { [role |-> "assistant", content |-> << t >>] : t \in FinalTexts },
                             MaxMessages) }

SynthesizeResponses(message, responses, outcome) ==
    IF outcome.fail # "none" THEN Raise("EngineError")
    ELSE LET i == FirstAssistant(outcome.messages) IN
         IF i = 0 THEN Return(NoFinalResponse)
         ELSE IF Len(outcome.messages[i].content) = 0 THEN Raise("IndexError")
         ELSE Return(outcome.messages[i].content[1])

-----------------------------------------------------------------------------
(* Tool servers: weather-mcp-server.py and attractions-mcp-server.py.  A  *)
(* returned dict is a function from its top-level keys to the text of the *)
(* value; unit symbols are written in ASCII.                              *)

WeatherServer == "weather-mcp-server"
AttractionsServer == "attractions-mcp-server"
Servers == { WeatherServer, AttractionsServer }

\* os.getenv(...): variable unset, set to the empty string, set to a key
KeyValues == { "None", "", "k-123" }

\* "not api_key"
Falsy(key) == key \in { "None", "" }

Locations == { "Paris", "Atlantis" }
UnitNames == { "imperial", "metric", "kelvin", "standard" }
Cnts == { 1, 8 }

\* the "cod" member of a provider body: an int, a string of digits, or absent
NoCod == [type |-> "absent", v |-> 0]
Cods == { NoCod } \cup [type : { "int", "str" }, v : { 200, 404 }]

\* what client.get / raise_for_status / response.json() give for one request
Responses ==
    { [kind |-> "RequestError", status |-> 0, cod |-> NoCod, data |-> "absent"] }
    \cup { [kind |-> "HTTPStatusError", status |-> st, cod |-> NoCod, data |-> "absent"] :
              st \in { 401, 404 } }
    \cup { [kind |-> "JSONDecodeError", status |-> 200, cod |-> NoCod, data |-> "absent"] }
    \cup { [kind |-> "json", status |-> 200, cod |-> c, data |-> d] :
              c \in Cods, d \in { "absent", "empty", "items" } }

NoRequest == [kind |-> "none", status |-> 0, cod |-> NoCod, data |-> "absent"]

\* "return None" and "return {...}"
ToolNone == [returned |-> TRUE, isnone |-> TRUE, value |-> EmptyMap]
ToolDict(d) == [returned |-> TRUE, isnone |-> FALSE, value |-> d]
ToolPending == [returned |-> FALSE, isnone |-> FALSE, value |-> EmptyMap]

NoCall == [tool |-> "none", location |-> "", units |-> "", cnt |-> 0, response |-> NoRequest]

\* the two dict lookups [units] at the head of the formatters
UnitSymbols == { "metric", "imperial", "kelvin" }
TempUnit(units) == IF units = "metric" THEN "C" ELSE IF units = "imperial" THEN "F" ELSE "K"
SpeedUnit(units) == IF units = "imperial" THEN "mph" ELSE "m/s"

_format_weather_data(location, units) ==
    IF units \notin UnitSymbols THEN Raise("KeyError")
    ELSE Return(("location" :> << location >>)
                @@ ("current" :> << "temperature_unit ", TempUnit(units) >>)
                @@ ("wind" :> << "speed_unit ", SpeedUnit(units) >>))

_format_forecast_data(location, units) ==
    IF units \notin UnitSymbols THEN Raise("KeyError")
    ELSE Return(("location" :> << location >>)
                @@ ("forecast" :> << "unit ", TempUnit(units) >>))

\* the outer "except Exception as e" of a weather tool
WeatherFailed(what, e) == ToolDict("error" :> << "Failed to get ", what, ": ", e >>)

get_current_weather(key, location, units, r) ==
    IF Falsy(key) THEN ToolNone
    ELSE IF r.kind = "RequestError" THEN ToolNone
    ELSE IF r.kind # "json" THEN WeatherFailed("current weather", r.kind)
    ELSE IF r.cod # [type |-> "int", v |-> 200] THEN ToolNone
    ELSE LET f == _format_weather_data(location, units) IN
         IF f.kind = "raise" THEN WeatherFailed("current weather", f.exc)
         ELSE ToolDict(f.value)

get_weather_forecast(key, location, units, cnt, r) ==
    IF Falsy(key) THEN ToolNone
    ELSE IF r.kind = "RequestError" THEN ToolNone
    ELSE IF r.kind # "json" THEN WeatherFailed("weather forecast", r.kind)
    ELSE IF r.cod # [type |-> "str", v |-> 200] THEN ToolNone
    ELSE LET f == _format_forecast_data(location, units) IN
         IF f.kind = "raise" THEN WeatherFailed("weather forecast", f.exc)
         ELSE ToolDict(f.value)

\* the three error dicts of the attractions tool share these members
AttractionsError(location, msg) ==
    ("error" :> msg) @@ ("attractions" :> << "[]" >>) @@ ("location" :> << location >>)

get_current_attractions(key, location, r) ==
    IF Falsy(key)
    THEN ToolDict(AttractionsError(location,
             << "TripAdvisor API key not found. Please set TRIPADVISOR_KEY in your .env file." >>))
    ELSE IF r.kind = "HTTPStatusError"
    THEN ToolDict(AttractionsError(location, << "HTTP ", ToString(r.status), " error: " >>)
                  @@ ("status_code" :> << ToString(r.status) >>))
    ELSE IF r.kind = "RequestError"
    THEN ToolDict(AttractionsError(location, << "Request error: ", r.kind >>))
    ELSE IF r.kind # "json"
    THEN ToolDict(AttractionsError(location, << "Failed to get current attractions: ", r.kind >>))
    ELSE IF r.data = "items"
    THEN ToolDict(("success" :> << "True" >>) @@ ("location" :> << location >>)
                  @@ ("attractions" :> << "[...]" >>) @@ ("total_found" :> << "len(data)" >>))
    ELSE ToolDict(("success" :> << "False" >>) @@ ("location" :> << location >>)
                  @@ ("attractions" :> << "[]" >>)
                  @@ ("message" :> << "No attractions found for this location" >>)
                  @@ ("raw_response" :> << "data" >>))

-----------------------------------------------------------------------------
(* Orchestrator: OrchestratorAgent.process_request, step by step *)

DispatchPc(k) == IF k = WeatherKey THEN "dispatch_weather" ELSE "dispatch_attractions"
RunPc(k) == IF k = WeatherKey THEN "run_weather" ELSE "run_attractions"

\* process_request calls _run_subagents once _analyze_task has returned;
\* _run_subagents looks at the weather agent first
AfterAnalyze == DispatchPc(WeatherKey)

\* after the weather block comes the attractions block, then _run_subagents
\* returns and process_request calls _synthesize_responses
AfterSpecialist(k) == IF k = WeatherKey THEN DispatchPc(AttractionsKey) ELSE "synthesize"

\* a dispatcher that launches process_task and goes on without its return
AfterStartNoWait(k) == AfterSpecialist(k)

\* process_task is a synchronous call: the dispatcher waits for its return
AfterStart(k) == RunPc(k)

\* the process_task calls, and a call that has not begun
Calls == 1..MaxCalls
Pending == [kind |-> "pending", value |-> << >>, exc |-> "none"]
IdleCall == [pc |-> "idle", thread |-> 0, listed |-> FALSE, messages |-> << >>, outcome |-> Pending]

NoError == [exc |-> "none", origin |-> "none"]
NoResult == [final_answer |-> << >>, agents_used |-> << >>, subagent_responses |-> EmptyMap]

\* no request is running
Quiet == pc \in { "idle", "done", "raised" }

\* OrchestratorAgent(client): no sub-agent set, no request made
OrchestratorIdle ==
    /\ weather_agent = "None"
    /\ attractions_agent = "None"
    /\ pc = "idle"
    /\ user_message = << >>
    /\ classification = "none"
    /\ agent_plan = EmptyMap
    /\ invoked = EmptyMap
    /\ subagent_responses = EmptyMap
    /\ synthesis_prompt = << >>
    /\ result = NoResult
    /\ error = NoError
    /\ log = << >>

\* no tool call made
ToolsIdle ==
    /\ tool_call = NoCall
    /\ tool_result = ToolPending

Init ==
    /\ OrchestratorIdle
    /\ kind = WeatherKey
    /\ agent = "handle"
    /\ threads = << >>
    /\ calls = [c \in Calls |-> IdleCall]
    /\ api_key = [s \in Servers |-> "None"]
    /\ ToolsIdle

set_subagents(w, a) ==
    /\ Quiet
    /\ weather_agent' = w
    /\ attractions_agent' = a
    /\ UNCHANGED << pc, user_message, classification, agent_plan, invoked,
                    subagent_responses, synthesis_prompt, result, error, log >>
    /\ UNCHANGED << specialistVars, toolVars >>

\* entry of process_request: nothing of an earlier request is kept
ProcessRequest(message) ==
    /\ Quiet
    /\ pc' = "analyze"
    /\ user_message' = message
    /\ classification' = "none"
    /\ agent_plan' = EmptyMap
    /\ invoked' = EmptyMap
    /\ subagent_responses' = EmptyMap
    /\ synthesis_prompt' = << >>
    /\ result' = NoResult
    /\ error' = NoError
    /\ log' = << >>
    /\ UNCHANGED << weather_agent, attractions_agent >>
    /\ UNCHANGED << specialistVars, toolVars >>

\* step 1: agent_plan = self._analyze_task(user_message), then the prints
\* that call agent_plan.get
Analyze(outcome) ==
    /\ pc = "analyze"
    /\ LET r == AnalyzeTask(user_message, outcome) IN
       /\ classification' = ReplyKind(outcome)
       /\ IF r.kind = "raise"
          THEN /\ pc' = "raised"
               /\ error' = [exc |-> r.exc, origin |-> "_analyze_task"]
               /\ UNCHANGED << agent_plan, log >>
          ELSE IF ~r.isdict
          THEN /\ pc' = "raised"
               /\ error' = [exc |-> "AttributeError", origin |-> "process_request"]
               /\ log' = Append(log, << "plan", "" >>)
               /\ UNCHANGED agent_plan
          ELSE /\ pc' = AfterAnalyze
               /\ agent_plan' = r.plan
               /\ log' = Append(log, << "plan", "" >>)
               /\ UNCHANGED error
    /\ UNCHANGED << weather_agent, attractions_agent, user_message, invoked,
                    subagent_responses, synthesis_prompt, result >>
    /\ UNCHANGED << specialistVars, toolVars >>

\* step 2, the block of specialist k in _run_subagents: the test and the call
Dispatch(k) ==
    /\ pc = DispatchPc(k)
    /\ IF Selected(agent_plan, k, Subagent(k))
       THEN /\ invoked' = (k :> TaskText(agent_plan, k)) @@ invoked
            /\ log' = Append(log, << "start", k >>)
            /\ pc' = AfterStart(k)
       ELSE /\ pc' = AfterSpecialist(k)
            /\ UNCHANGED << invoked, log >>
    /\ UNCHANGED << weather_agent, attractions_agent, user_message, classification,
                    agent_plan, subagent_responses, synthesis_prompt, result, error >>
    /\ UNCHANGED << specialistVars, toolVars >>

\* step 2, the return of specialist k's process_task
Complete(k, outcome) ==
    /\ pc = RunPc(k)
    /\ LET r == ProcessTask(k, Subagent(k), invoked[k], outcome) IN
       IF r.kind = "raise"
       THEN /\ pc' = "raised"
            /\ error' = [exc |-> r.exc, origin |-> "process_task"]
            /\ UNCHANGED << subagent_responses, log >>
       ELSE /\ subagent_responses' = (k :> r.value) @@ subagent_responses
            /\ log' = Append(log, << "end", k >>)
            /\ pc' = AfterSpecialist(k)
            /\ UNCHANGED error
    /\ UNCHANGED << weather_agent, attractions_agent, user_message, classification,
                    agent_plan, invoked, synthesis_prompt, result >>
    /\ UNCHANGED << specialistVars, toolVars >>

\* runs.create_and_process of specialist k's call never comes back: it is
\* called without a time bound, and process_request has one thread of control
HungPc(k) == IF k = WeatherKey THEN "hung_weather" ELSE "hung_attractions"

Hang(k) ==
    /\ pc = RunPc(k)
    /\ Subagent(k) # Uninitialized
    /\ pc' = HungPc(k)
    /\ UNCHANGED << weather_agent, attractions_agent, user_message, classification,
                    agent_plan, invoked, subagent_responses, synthesis_prompt,
                    result, error, log >>
    /\ UNCHANGED << specialistVars, toolVars >>

\* step 3: _synthesize_responses, then the return of process_request
Synthesize(outcome) ==
    /\ pc = "synthesize"
    /\ log' = Append(log, << "synthesize", "" >>)
    /\ LET r == SynthesizeResponses(user_message, subagent_responses, outcome) IN
       /\ synthesis_prompt' =
             IF outcome.fail = "threads.create" THEN << >>
             ELSE SynthesisPrompt(user_message, subagent_responses)
       /\ IF r.kind = "raise"
          THEN /\ pc' = "raised"
               /\ error' = [exc |-> r.exc, origin |-> "_synthesize_responses"]
               /\ UNCHANGED result
          ELSE /\ pc' = "done"
               /\ result' = [ final_answer |-> r.value,
                              agents_used |-> Get(agent_plan, "agents_needed", << >>),
                              subagent_responses |-> subagent_responses ]
               /\ UNCHANGED error
    /\ UNCHANGED << weather_agent, attractions_agent, user_message, classification,
                    agent_plan, invoked, subagent_responses >>
    /\ UNCHANGED << specialistVars, toolVars >>

Next ==
    \/ \E w \in SubagentStates, a \in SubagentStates : set_subagents(w, a)
    \/ \E message \in UserMessages : ProcessRequest(message)
    \/ \E outcome \in PlannerOutcomes : Analyze(outcome)
    \/ \E k \in Keys : Dispatch(k)
    \/ \E k \in Keys, outcome \in SpecialistOutcomes : Complete(k, outcome)
    \/ \E k \in Keys : Hang(k)
    \/ \E outcome \in SynthesisOutcomes : Synthesize(outcome)

Spec == Init /\ [][Next]_vars

-----------------------------------------------------------------------------
(* One specialist instance and the process_task calls made on it, each call *)
(* step by step; calls of different requests may interleave.                *)

AssistantTurns == { m \in SpecialistMessages : m.role = "assistant" }

\* what one run adds to its thread
RunTurns == SeqsUpTo(AssistantTurns, MaxMessages)

\* the same, one turn shorter, for calls that run side by side
ShortRunTurns == SeqsUpTo(AssistantTurns, MaxMessages - 1)

\* the call of a request that makes a single call
FirstCall == CHOOSE c \in Calls : \A d \in Calls : c <= d

\* the messages ms as posted on behalf of call c
Stamp(ms, c) == [i \in 1..Len(ms) |-> [role |-> ms[i].role, content |-> ms[i].content, by |-> c]]

Reverse(ms) == [i \in 1..Len(ms) |-> ms[Len(ms) + 1 - i]]

\* a specialist that keeps one thread for all its calls
SharedThreadId(ths) == 1

\* threads.create(): a thread of its own for every call
NewThreadId(ths) == Len(ths) + 1

\* the reply loop taking the last assistant message instead of the first
LastReply(k, messages) ==
    LET hits == { i \in 1..Len(messages) : messages[i].role = "assistant" } IN
    IF hits = {} THEN Return(NoResponse(k))
    ELSE LET i == CHOOSE x \in hits : \A y \in hits : y <= x IN
         IF Len(messages[i].content) = 0 THEN Return(ErrorText(k, "IndexError"))
         ELSE Return(messages[i].content[1])

\* "for msg in messages: if msg.role == 'assistant': return ...", the
\* sentinel after the loop, and the except clause for content[0]
Reply(k, messages) ==
    LET i == FirstAssistant(messages) IN
    IF i = 0 THEN Return(NoResponse(k))
    ELSE IF Len(messages[i].content) = 0 THEN Return(ErrorText(k, "IndexError"))
    ELSE Return(messages[i].content[1])

TaskInit ==
    /\ OrchestratorIdle
    /\ kind \in Keys
    /\ agent \in { "None", "handle" }
    /\ threads = << >>
    /\ calls = [c \in Calls |-> IdleCall]
    /\ api_key = [s \in Servers |-> "None"]
    /\ ToolsIdle

\* entry of process_task: "if not self.agent: raise ValueError"
Begin(c) ==
    /\ calls[c].pc = "idle"
    /\ c > 1 => calls[c - 1].pc # "idle"    \* calls are numbered as they start
    /\ calls' = [calls EXCEPT ![c] =
                    IF agent = "None"
                    THEN [@ EXCEPT !.pc = "raised", !.outcome = Raise("ValueError")]
                    ELSE [@ EXCEPT !.pc = "threads.create"]]
    /\ UNCHANGED << orchestratorVars, kind, agent, threads, toolVars >>

\* thread = self.client.agents.threads.create()
ThreadsCreate(c) ==
    /\ calls[c].pc = "threads.create"
    /\ LET id == NewThreadId(threads) IN
       /\ threads' = IF id > Len(threads) THEN Append(threads, << >>) ELSE threads
       /\ calls' = [calls EXCEPT ![c] = [@ EXCEPT !.pc = "messages.create", !.thread = id]]
    /\ UNCHANGED << orchestratorVars, kind, agent, toolVars >>

\* messages.create(thread_id=thread.id, role="user", content=task)
MessagesCreate(c) ==
    /\ calls[c].pc = "messages.create"
    /\ threads' = [threads EXCEPT ![calls[c].thread] = @ \o Stamp(<< UserTurn >>, c)]
    /\ calls' = [calls EXCEPT ![c] = [@ EXCEPT !.pc = "runs.create_and_process"]]
    /\ UNCHANGED << orchestratorVars, kind, agent, toolVars >>

\* runs.create_and_process(thread_id=thread.id, agent_id=self.agent.id): the
\* engine adds the run's assistant turns to that thread
RunsCreateAndProcess(c, turns) ==
    /\ calls[c].pc = "runs.create_and_process"
    /\ threads' = [threads EXCEPT ![calls[c].thread] = @ \o Stamp(turns, c)]
    /\ calls' = [calls EXCEPT ![c] = [@ EXCEPT !.pc = "messages.list"]]
    /\ UNCHANGED << orchestratorVars, kind, agent, toolVars >>

\* messages = messages.list(thread_id=thread.id), oldest or newest first as
\* the engine chooses, then the reply loop and the return
MessagesList(c, newest_first) ==
    /\ calls[c].pc = "messages.list"
    /\ LET ms == IF newest_first THEN Reverse(threads[calls[c].thread])
                 ELSE threads[calls[c].thread] IN
       calls' = [calls EXCEPT ![c] =
                    [@ EXCEPT !.pc = "returned", !.listed = TRUE, !.messages = ms,
                              !.outcome = Reply(kind, ms)]]
    /\ UNCHANGED << orchestratorVars, kind, agent, threads, toolVars >>

\* one of the four engine calls raises: "except Exception as e: return ..."
EngineError(c) ==
    /\ calls[c].pc \in Stages
    /\ calls' = [calls EXCEPT ![c] =
                    [@ EXCEPT !.pc = "returned",
                              !.outcome = Return(ErrorText(kind, "EngineError"))]]
    /\ UNCHANGED << orchestratorVars, kind, agent, threads, toolVars >>

\* a single process_task call on the instance
TaskNext ==
    \/ Begin(FirstCall)
    \/ ThreadsCreate(FirstCall)
    \/ MessagesCreate(FirstCall)
    \/ \E turns \in RunTurns : RunsCreateAndProcess(FirstCall, turns)
    \/ \E newest_first \in BOOLEAN : MessagesList(FirstCall, newest_first)
    \/ EngineError(FirstCall)

TaskSpec == TaskInit /\ [][TaskNext]_vars

\* process_task calls of several requests on the same instance, interleaved
ConcurrentNext ==
    \/ \E c \in Calls : Begin(c)
    \/ \E c \in Calls : ThreadsCreate(c)
    \/ \E c \in Calls : MessagesCreate(c)
    \/ \E c \in Calls, turns \in ShortRunTurns : RunsCreateAndProcess(c, turns)
    \/ \E c \in Calls, newest_first \in BOOLEAN : MessagesList(c, newest_first)
    \/ \E c \in Calls : EngineError(c)

\* the weather specialist; process_task of the attractions specialist differs
\* from it in its texts only
ConcurrentInit ==
    /\ TaskInit
    /\ kind = WeatherKey

ConcurrentSpec == ConcurrentInit /\ [][ConcurrentNext]_vars

-----------------------------------------------------------------------------
(* Calls of the three tools, each on its own server module, against every *)
(* response of the provider.                                              *)

ToolInit ==
    /\ OrchestratorIdle
    /\ kind = WeatherKey
    /\ agent = "handle"
    /\ threads = << >>
    /\ calls = [c \in Calls |-> IdleCall]
    /\ api_key \in [Servers -> KeyValues]
    /\ ToolsIdle

CurrentWeatherCall(location, units, r) ==
    /\ tool_call' = [tool |-> "get_current_weather", location |-> location, units |-> units,
                     cnt |-> 0, response |-> IF Falsy(api_key[WeatherServer]) THEN NoRequest ELSE r]
    /\ tool_result' = get_current_weather(api_key[WeatherServer], location, units, r)
    /\ UNCHANGED << orchestratorVars, specialistVars, api_key >>

WeatherForecastCall(location, units, cnt, r) ==
    /\ tool_call' = [tool |-> "get_weather_forecast", location |-> location, units |-> units,
                     cnt |-> cnt, response |-> IF Falsy(api_key[WeatherServer]) THEN NoRequest ELSE r]
    /\ tool_result' = get_weather_forecast(api_key[WeatherServer], location, units, cnt, r)
    /\ UNCHANGED << orchestratorVars, specialistVars, api_key >>

CurrentAttractionsCall(location, r) ==
    /\ tool_call' = [tool |-> "get_current_attractions", location |-> location, units |-> "",
                     cnt |-> 0,
                     response |-> IF Falsy(api_key[AttractionsServer]) THEN NoRequest ELSE r]
    /\ tool_result' = get_current_attractions(api_key[AttractionsServer], location, r)
    /\ UNCHANGED << orchestratorVars, specialistVars, api_key >>

ToolNext ==
    \/ \E location \in Locations, units \in UnitNames, r \in Responses :
          CurrentWeatherCall(location, units, r)
    \/ \E location \in Locations, units \in UnitNames, cnt \in Cnts, r \in Responses :
          WeatherForecastCall(location, units, cnt, r)
    \/ \E location \in Locations, r \in Responses :
          CurrentAttractionsCall(location, r)

ToolSpec == ToolInit /\ [][ToolNext]_vars

-----------------------------------------------------------------------------
(* Properties *)

AgentsNeeded == Range(Get(agent_plan, "agents_needed", << >>))

\* _analyze_task has returned a plan to process_request
PlanHandedOver ==
    pc \in { "dispatch_weather", "run_weather", "hung_weather", "dispatch_attractions",
             "run_attractions", "hung_attractions", "synthesize", "done" }
    \/ (pc = "raised" /\ error.origin \in { "process_task", "_synthesize_responses" })

\* C1: the plan returned by _analyze_task names only known agents in
\* agents_needed, whatever the classification call replied.
C1_AgentsNeededKnown == PlanHandedOver => AgentsNeeded \subseteq KnownAgents

\* C2: when the classification reply is text that is no JSON, _analyze_task
\* returns, without raising, the default plan: every known agent, each
\* sub-task equal to the user message, location the "not specified" sentinel.
C2_NonJsonGivesDefault ==
    classification = "garbage" =>
        /\ PlanHandedOver
        /\ DOMAIN agent_plan = { "agents_needed", "weather_task", "attractions_task",
                                 "location", "reasoning" }
        /\ AgentsNeeded = KnownAgents
        /\ \A k \in Keys : agent_plan[TaskKey(k)] = user_message
        /\ agent_plan["location"] = << "location not specified" >>
        /\ agent_plan["reasoning"] = << "Fallback to using both agents" >>

C2_Witness ==
    /\ classification = "garbage"
    /\ pc = "dispatch_weather"
    /\ agent_plan["weather_task"] = user_message

\* C3 as stated: an engine error and a run without assistant reply both make
\* the planner raise to the caller of the request, never the default plan.
C3_FailurePropagates ==
    classification \in { "engine_error", "no_reply" } =>
        /\ pc = "raised"
        /\ error.origin = "_analyze_task"

\* C3 amended: an error of a call to the classification engine leaves
\* process_request as that error, no plan is made and no specialist runs; a
\* run that ends without assistant reply gives the default plan instead.
C3_EngineErrorPropagates ==
    /\ classification = "engine_error" =>
          /\ pc = "raised"
          /\ error = [exc |-> "EngineError", origin |-> "_analyze_task"]
          /\ agent_plan = EmptyMap
          /\ invoked = EmptyMap
          /\ result = NoResult
    /\ classification = "no_reply" =>
          /\ PlanHandedOver
          /\ AgentsNeeded = KnownAgents
          /\ \A k \in Keys : agent_plan[TaskKey(k)] = user_message
          /\ agent_plan["location"] = << "location not specified" >>

C3_Witness ==
    /\ classification = "engine_error"
    /\ pc = "raised"
    /\ error.exc = "EngineError"

\* C4: the response map of _run_subagents has no entry for an agent whose
\* name is not in the plan's agents_needed.
C4_OnlyNeededAnswered ==
    /\ \A k \in DOMAIN subagent_responses : NameOf(k) \in AgentsNeeded
    /\ \A k \in DOMAIN invoked : NameOf(k) \in AgentsNeeded
    /\ \A k \in DOMAIN result.subagent_responses : NameOf(k) \in AgentsNeeded

\* a plan with a task for attractions and a ready attractions agent, but only
\* weather in agents_needed: the map holds weather alone
C4_Witness ==
    /\ pc = "synthesize"
    /\ DOMAIN subagent_responses = { WeatherKey }
    /\ "attractions_task" \in DOMAIN agent_plan
    /\ attractions_agent = "Ready"
    /\ AttractionsName \notin AgentsNeeded

\* C5: a specialist invocation that raises during dispatch does not abort
\* _run_subagents: a response map is still returned and every specialist the
\* plan selects has its slot in it.
C5_DispatchSurvivesRaise ==
    /\ ~(pc = "raised" /\ error.origin = "process_task")
    /\ pc = "synthesize" =>
          \A k \in Keys :
              (NameOf(k) \in AgentsNeeded /\ TaskKey(k) \in DOMAIN agent_plan
                  /\ Subagent(k) # "None")
              => k \in DOMAIN subagent_responses

\* C6: no exception leaves a specialist's process_task, in any state of the
\* specialist; a failure comes back as text that starts with the specialist's
\* error prefix.
C6_ProcessTaskNeverRaises ==
    /\ error.origin # "process_task"
    /\ \A k \in DOMAIN subagent_responses :
          \/ subagent_responses[k] \in SpecialistTexts
          \/ subagent_responses[k] = NoResponse(k)
          \/ subagent_responses[k][1] = ErrorPrefix(k)

\* C7: with the classification engine reachable, a request whose synthesis
\* call was started returns a result with a final answer: a failure of the
\* synthesis call (an error, or no reply) never makes process_request raise.
C7_SynthesisFailureIsSoft ==
    (Len(log) > 0 /\ log[Len(log)] = << "synthesize", "" >>) =>
        /\ pc = "done"
        /\ error = NoError
        /\ result.final_answer # << >>

\* position in the log of the first event e, 0 when absent
FirstAt(e) ==
    LET hits == { i \in 1..Len(log) : log[i] = e }
    IN IF hits = {} THEN 0 ELSE CHOOSE i \in hits : \A j \in hits : i <= j

\* C8: within a request no specialist invocation starts before the planner
\* has returned its plan, and the synthesis call starts only after every
\* started specialist invocation has returned.
C8_PhasesOrdered ==
    /\ \A i \in 1..Len(log) :
          log[i][1] = "start" =>
              /\ FirstAt(<< "plan", "" >>) \in 1..(i - 1)
              /\ PlanHandedOver
    /\ \A i \in 1..Len(log) :
          log[i][1] = "synthesize" =>
              \A j \in 1..Len(log) :
                  log[j][1] = "start" =>
                      \E m \in (j + 1)..(i - 1) : log[m] = << "end", log[j][2] >>
    /\ pc = "synthesize" => DOMAIN invoked = DOMAIN subagent_responses

\* a request in which both specialists ran and the synthesizer was called
C8_Witness ==
    /\ pc = "done"
    /\ DOMAIN invoked = Keys
    /\ log[Len(log)] = << "synthesize", "" >>

\* C9: the map _run_subagents returns has an entry for specialist k exactly
\* when k was attempted, that is exactly when its name is in agents_needed,
\* its sub-agent is set and the plan has its sub-task.
C9_EntryIffAttempted ==
    pc = "synthesize" =>
        \A k \in Keys :
            /\ k \in DOMAIN subagent_responses <=> k \in DOMAIN invoked
            /\ k \in DOMAIN subagent_responses <=>
                  /\ NameOf(k) \in AgentsNeeded
                  /\ Subagent(k) # "None"
                  /\ TaskKey(k) \in DOMAIN agent_plan

\* weather attempted; attractions named by the plan but without sub-task, so
\* not attempted and absent from the map
C9_Witness ==
    /\ pc = "synthesize"
    /\ DOMAIN subagent_responses = { WeatherKey }
    /\ AttractionsName \in AgentsNeeded
    /\ attractions_agent = "Ready"
    /\ "attractions_task" \notin DOMAIN agent_plan

\* C10: every plan handed to the dispatcher has each agent with a sub-task
\* also in agents_needed, and carries a location.
C10_PlanInvariant ==
    PlanHandedOver =>
        /\ \A k \in Keys : TaskKey(k) \in DOMAIN agent_plan => NameOf(k) \in AgentsNeeded
        /\ "location" \in DOMAIN agent_plan

\* the synthesis call of the current request has been started
SynthesisStarted == Len(log) > 0 /\ log[Len(log)] = << "synthesize", "" >>

\* part occurs in text as a run of consecutive segments
Embeds(text, part) ==
    \E i \in 1..(Len(text) + 1) :
        /\ i + Len(part) - 1 <= Len(text)
        /\ SubSeq(text, i, i + Len(part) - 1) = part

\* C11: called with an empty response map, _synthesize_responses still posts
\* a prompt holding the user message and returns non-empty text.
C11_EmptyMapStillAnswered ==
    (SynthesisStarted /\ subagent_responses = EmptyMap) =>
        /\ Embeds(synthesis_prompt, << "Original user question: " >> \o user_message)
        /\ pc = "done"
        /\ result.final_answer # << >>

\* C12: a well-formed classification reply with no agent in agents_needed
\* invokes no specialist, calls the synthesizer with an empty response map,
\* and the request completes with empty agents_used and empty responses.
C12_EmptyPlanCompletes ==
    (classification = "object" /\ PlanHandedOver
        /\ Get(agent_plan, "agents_needed", << >>) = << >>) =>
        /\ invoked = EmptyMap
        /\ subagent_responses = EmptyMap
        /\ SynthesisStarted =>
              /\ pc = "done"
              /\ result.agents_used = << >>
              /\ result.subagent_responses = EmptyMap

\* _run_subagents has returned or was left by an exception
DispatchOver ==
    pc \in { "synthesize", "done" }
    \/ (pc = "raised" /\ error.origin \in { "process_task", "_synthesize_responses" })

PlanLocation == Get(agent_plan, "location", << >>)

\* the task string of k starts with the plan's location and holds k's sub-task
CarriesLocationAndTask(k) ==
    /\ invoked[k][1] = "Location: "
    /\ SubSeq(invoked[k], 2, 1 + Len(PlanLocation)) = PlanLocation
    /\ invoked[k][2 + Len(PlanLocation)] = "\n\nTask: "
    /\ SubSeq(invoked[k], 3 + Len(PlanLocation),
              2 + Len(PlanLocation) + Len(agent_plan[TaskKey(k)])) = agent_plan[TaskKey(k)]
    /\ Embeds(invoked[k], << Instruction(k)[1] >> \o PlanLocation \o << Instruction(k)[2] >>)

C18_AgentsUsedAreAnswered ==
    pc = "done" =>
        Range(result.agents_used) = { NameOf(k) : k \in DOMAIN result.subagent_responses }

\* C15: a specialist call that does not return within its time bound does not
\* hold the request: the call is given up as that specialist's failure, so
\* the request can still take its next step towards the synthesizer.
C15_HungCallDoesNotBlock ==
    \A k \in Keys : pc = HungPc(k) => ENABLED Next

\* the calls whose process_task got its transcript from messages.list
HasTranscript(c) == calls[c].listed

\* C13: a call that read its transcript returns, never raises; it returns the
\* text of the first assistant message of the transcript when that message
\* has a text, and the specialist's "No response received" sentinel exactly
\* when the transcript holds no assistant message.
C13_FirstAssistantReturned ==
    \A c \in Calls : HasTranscript(c) =>
        LET ms == calls[c].messages
            i == FirstAssistant(ms) IN
        /\ calls[c].pc = "returned"
        /\ calls[c].outcome.kind = "return"
        /\ (i = 0) <=> (calls[c].outcome.value = NoResponse(kind))
        /\ (i # 0 /\ Len(ms[i].content) > 0) => calls[c].outcome.value = ms[i].content[1]

\* a transcript with two assistant messages of different texts: the first
\* one's text came back
C13_Witness ==
    \E c \in Calls :
        /\ HasTranscript(c)
        /\ \E i, j \in 1..Len(calls[c].messages) :
              /\ i = FirstAssistant(calls[c].messages)
              /\ i < j
              /\ calls[c].messages[j].role = "assistant"
              /\ Len(calls[c].messages[i].content) > 0
              /\ Len(calls[c].messages[j].content) > 0
              /\ calls[c].messages[i].content # calls[c].messages[j].content
              /\ calls[c].outcome = Return(calls[c].messages[i].content[1])

\* the calls that have created their thread
HasThread(c) == calls[c].thread # 0

\* every thread is one call's own: no two calls hold the same thread, every
\* message in a thread was put there for the call that holds it, and every
\* message a call read back is one of its own
Isolated ==
    /\ \A c, d \in Calls : (c # d /\ HasThread(c) /\ HasThread(d)) => calls[c].thread # calls[d].thread
    /\ \A c \in Calls : HasThread(c) =>
          \A i \in 1..Len(threads[calls[c].thread]) : threads[calls[c].thread][i].by = c
    /\ \A c \in Calls : HasTranscript(c) =>
          \A i \in 1..Len(calls[c].messages) : calls[c].messages[i].by = c

\* C14: under every interleaving of process_task calls on one specialist
\* instance each call has a thread of its own and posts to and reads from
\* that thread only, and no step of any call changes the agent handle.
C14_CallsIsolated == [][agent' = agent /\ Isolated']_vars

\* two calls in flight at once, each with its own thread holding its own
\* question and a different answer
C14_Witness ==
    \E c, d \in Calls :
        /\ c # d
        /\ calls[c].pc = "messages.list"
        /\ calls[d].pc = "messages.list"
        /\ calls[c].thread # calls[d].thread
        /\ Len(threads[calls[c].thread]) = 2
        /\ Len(threads[calls[d].thread]) = 2
        /\ threads[calls[c].thread][2].content # threads[calls[d].thread][2].content

WeatherTools == { "get_current_weather", "get_weather_forecast" }

ServerOf(tool) == IF tool \in WeatherTools THEN WeatherServer ELSE AttractionsServer

\* the kind of provider request failure the last tool call met, "none" if it
\* met none
FailureKind ==
    IF tool_call.tool = "none" THEN "none"
    ELSE IF Falsy(api_key[ServerOf(tool_call.tool)]) THEN "missing API key"
    ELSE IF tool_call.response.kind = "RequestError" THEN "transport error"
    ELSE IF tool_call.response.kind = "HTTPStatusError" THEN "HTTP error status"
    ELSE IF tool_call.response.kind = "json" /\ tool_call.response.cod.v = 404
         THEN "provider error code in the body"
    ELSE "none"

\* C16: on every kind of provider request failure a weather tool returns
\* None and the attractions tool returns a dict with an "error" member;
\* neither raises.
C16_FailureContract ==
    FailureKind # "none" =>
        /\ tool_result.returned
        /\ tool_call.tool \in WeatherTools => tool_result.isnone
        /\ tool_call.tool \notin WeatherTools =>
              (~tool_result.isnone /\ "error" \in DOMAIN tool_result.value)

====
